---- MODULE Spec2Model ----
(***************************************************************************)
(* Model of extension/bookmark.js: a browser extension that forwards new   *)
(* bookmarks to a local HTTP service and removes them from the bookmark    *)
(* store once the service has accepted them.                               *)
(*                                                                         *)
(* Every async function invocation is a task with one position (pc): the   *)
(* await it is suspended at.  An action is the resumption of one task at   *)
(* one await, run up to the next await (JavaScript runs to completion      *)
(* between awaits).  The platform (bookmark store, network, user) is the   *)
(* environment: its answers are chosen with \E.                            *)
(***************************************************************************)
EXTENDS Integers, Sequences, FiniteSets, TLC

VARIABLES
    store,       \* the platform's bookmark store: nodes in stored order
    placed,      \* ghost: every node the platform/user ever put in the store
    task,        \* the async invocations: startup sweep, retry ticks, handlers
    timerArmed,  \* setInterval(retryUnprocessedBookmarks, INTERVAL) was called
    installed,   \* the onInstalled event has fired
    world        \* environment: "faulty" (any call may fail) or "healthy"

vars == <<store, placed, task, timerArmed, installed, world>>

(***************************************************************************)
(* Bounds of the model.                                                    *)
(***************************************************************************)
\* invocations (startup sweep, retry ticks, onCreated listeners) that may be
\* pending at the same time; the code sets no limit
MaxTasks == 2

(***************************************************************************)
(* Constants of the program.                                               *)
(***************************************************************************)
UNSUPPORTED_SCHEMES == <<"about:", "data:", "chrome:", "file:">>

DEFAULT_URLS == <<
    "https://support.mozilla.org/products/firefox",
    "https://support.mozilla.org/kb/customize-firefox-controls-buttons-and-toolbars?utm_source=firefox-browser&utm_medium=default-bookmarks&utm_campaign=customize",
    "https://www.mozilla.org/contribute/",
    "https://www.mozilla.org/about/",
    "https://www.mozilla.org/firefox/?utm_medium=firefox-desktop&utm_source=bookmarks-toolbar&utm_campaign=new-users&utm_content=-global" >>

INTERVAL == 60 * 1000

UNFILED == "unfiled_____"

(***************************************************************************)
(* Pure functions.                                                         *)
(***************************************************************************)
\* String.prototype.startsWith
StartsWith(s, p) == Len(s) >= Len(p) /\ SubSeq(s, 1, Len(p)) = p

\* variant: the url is compared with the schemes instead of its prefix
isUnsupportedUrlExact(url) ==
    \E i \in DOMAIN UNSUPPORTED_SCHEMES : url = UNSUPPORTED_SCHEMES[i]

isUnsupportedUrl(url) ==
    \E i \in DOMAIN UNSUPPORTED_SCHEMES : StartsWith(url, UNSUPPORTED_SCHEMES[i])

isDefaultUrl(url) ==
    \E i \in DOMAIN DEFAULT_URLS : DEFAULT_URLS[i] = url

\* JavaScript values that are a string or null
Null == [null |-> TRUE]
Str(s) == [str |-> s]

\* A time value (milliseconds since the epoch, the number dateAdded holds) is
\* kept as whole seconds and the milliseconds left, sec * 1000 + ms: a time
\* value of today is larger than the integers TLC computes with.
Ms(sec, milli) == [sec |-> sec, ms |-> milli]

Digits == <<"0", "1", "2", "3", "4", "5", "6", "7", "8", "9">>

\* n in decimal, in `width` digits
RECURSIVE Pad(_, _)
Pad(n, width) ==
    IF width = 0 THEN "" ELSE Pad(n \div 10, width - 1) \o Digits[(n % 10) + 1]

\* the UTC calendar date and time of day of a time value of the years 1970-9999
DateFields(t) ==
    LET days == t.sec \div 86400
        z == days + 719468
        era == z \div 146097
        doe == z - era * 146097
        yoe == (doe - doe \div 1460 + doe \div 36524 - doe \div 146096) \div 365
        doy == doe - (365 * yoe + yoe \div 4 - yoe \div 100)
        mp == (5 * doy + 2) \div 153
        month == IF mp < 10 THEN mp + 3 ELSE mp - 9
    IN  [year |-> yoe + era * 400 + (IF month <= 2 THEN 1 ELSE 0),
         month |-> month,
         day |-> doy - (153 * mp + 2) \div 5 + 1,
         hours |-> (t.sec % 86400) \div 3600,
         minutes |-> (t.sec % 3600) \div 60,
         seconds |-> t.sec % 60,
         ms |-> t.ms]

\* variant: the milliseconds are left out
toISOStringSeconds(t) ==
    LET d == DateFields(t) IN
    Pad(d.year, 4) \o "-" \o Pad(d.month, 2) \o "-" \o Pad(d.day, 2) \o "T"
    \o Pad(d.hours, 2) \o ":" \o Pad(d.minutes, 2) \o ":" \o Pad(d.seconds, 2) \o "Z"

\* new Date(t).toISOString(): YYYY-MM-DDTHH:mm:ss.sssZ
toISOString(t) ==
    LET d == DateFields(t) IN
    Pad(d.year, 4) \o "-" \o Pad(d.month, 2) \o "-" \o Pad(d.day, 2) \o "T"
    \o Pad(d.hours, 2) \o ":" \o Pad(d.minutes, 2) \o ":" \o Pad(d.seconds, 2)
    \o "." \o Pad(d.ms, 3) \o "Z"

(***************************************************************************)
(* The bookmark store.  A node (BookmarkTreeNode) has an id, a title, a    *)
(* parentId, a dateAdded and, when it is a bookmark and not a folder, a    *)
(* url (hasUrl = FALSE stands for url === undefined).  The store maps a    *)
(* folder's id to the folder's children in their stored order; the root    *)
(* is the one child of "".                                                 *)
(***************************************************************************)
Mk(id, title, hasUrl, url, parentId, dateAdded) ==
    [id |-> id, title |-> title, hasUrl |-> hasUrl, url |-> url,
     parentId |-> parentId, dateAdded |-> dateAdded]

ROOT == "root________"

\* the nodes of the store when the extension is loaded
InitialNodes == <<
    Mk(ROOT, "", FALSE, "", "", Ms(1600000000, 0)),
    Mk("toolbar_____", "Bookmarks Toolbar", FALSE, "", ROOT, Ms(1600000000, 0)),
    Mk("d1", "About Us", TRUE, "https://www.mozilla.org/about/", "toolbar_____",
       Ms(1600000000, 0)),
    Mk(UNFILED, "Other Bookmarks", FALSE, "", ROOT, Ms(1600000000, 0)),
    Mk("f1", "Reading", FALSE, "", UNFILED, Ms(1650000000, 123)),
    Mk("b2", "Example", TRUE, "https://example.com", "f1", Ms(1700000000, 0)),
    Mk("u1", "Blank", TRUE, "about:blank", "f1", Ms(1700000050, 0)),
    Mk("b1", "News", TRUE, "http://news.example.org/", UNFILED, Ms(1700000123, 456)) >>

\* the nodes the user may create while the extension runs: a bookmark, a
\* folder, and a bookmark in that folder
Creatable == <<
    Mk("c1", "Later", TRUE, "https://later.example.net/a", UNFILED,
       Ms(1709251199, 999)),
    Mk("c2", "New Folder", FALSE, "", "f1", Ms(1709251200, 0)),
    Mk("c3", "Notes", TRUE, "file:///home/u/notes.txt", "c2", Ms(1709251300, 5)) >>

\* the nodes the user may create where folder lookups are studied: a folder
\* with a title, a folder without one, and a bookmark in each
FolderNodes == <<
    Mk("w1", "Work", FALSE, "", UNFILED, Ms(1710000000, 0)),
    Mk("x1", "Plan", TRUE, "https://work.example.com/plan", "w1", Ms(1710000100, 250)),
    Mk("e1", "", FALSE, "", UNFILED, Ms(1710000200, 0)),
    Mk("x2", "Draft", TRUE, "https://draft.example.com/", "e1", Ms(1710000300, 750)) >>

Range(seq) == {seq[i] : i \in DOMAIN seq}

Universe == Range(InitialNodes) \cup Range(Creatable) \cup Range(FolderNodes)

FolderIds == {""} \cup {n.id : n \in {m \in Universe : ~m.hasUrl}}

InitialStore ==
    [p \in FolderIds |-> SelectSeq(InitialNodes, LAMBDA n : n.parentId = p)]

Nodes(st) == UNION {Range(st[p]) : p \in DOMAIN st}

Ids(st) == {n.id : n \in Nodes(st)}

InStore(id) == \E p \in DOMAIN store : \E i \in DOMAIN store[p] : store[p][i].id = id

Children(st, id) == IF id \in DOMAIN st THEN st[id] ELSE <<>>

\* the platform stores a new node behind its siblings
StoreCreate(st, node) == [st EXCEPT ![node.parentId] = Append(@, node)]

\* browser.bookmarks.get(id), when it resolves: the array of the nodes found
StoreGet(st, id) ==
    LET found == {n \in Nodes(st) : n.id = id}
    IN  IF found = {} THEN <<>> ELSE <<CHOOSE n \in found : TRUE>>

\* browser.bookmarks.remove(id), when it resolves
StoreRemove(st, id) ==
    [p \in DOMAIN st |-> SelectSeq(st[p], LAMBDA n : n.id # id)]

\* browser.bookmarks.getTree(), when it resolves: the array holding the root
GetTree(st) == Children(st, "")

\* toISOString of the dateAdded of every node, computed once
IsoDates == [t \in {n.dateAdded : n \in Universe} |-> toISOString(t)]

\* the ids of a node and of the nodes below it
RECURSIVE Subtree(_, _)
Subtree(st, id) ==
    {id} \cup UNION {Subtree(st, n.id) : n \in Range(Children(st, id))}

\* the store after the user deleted a folder with all it holds
StoreRemoveTree(st, id) ==
    [p \in DOMAIN st |->
        IF p \in Subtree(st, id) THEN <<>>
        ELSE SelectSeq(st[p], LAMBDA n : n.id \notin Subtree(st, id))]

(***************************************************************************)
(* processAllBookmarks.traverse: the queue of a sweep.  `nodes` is the     *)
(* fetched tree, `level` the array being walked.                           *)
(***************************************************************************)
Truthy(n) == n.hasUrl /\ n.url # ""

Queued(n) == Truthy(n) /\ ~isUnsupportedUrl(n.url) /\ ~isDefaultUrl(n.url)

\* variant: the siblings are walked before the children
RECURSIVE traverseSiblingsFirst(_, _)
traverseSiblingsFirst(nodes, level) ==
    IF level = <<>> THEN <<>>
    ELSE LET bookmark == Head(level) IN
         (IF Queued(bookmark) THEN <<bookmark>> ELSE <<>>)
         \o traverseSiblingsFirst(nodes, Tail(level))
         \o traverseSiblingsFirst(nodes, Children(nodes, bookmark.id))

\* variant: the children of a node are not walked
RECURSIVE traverseNoChildren(_, _)
traverseNoChildren(nodes, level) ==
    IF level = <<>> THEN <<>>
    ELSE LET bookmark == Head(level) IN
         (IF Queued(bookmark) THEN <<bookmark>> ELSE <<>>)
         \o traverseNoChildren(nodes, Tail(level))

RECURSIVE traverse(_, _)
traverse(nodes, level) ==
    IF level = <<>> THEN <<>>
    ELSE LET bookmark == Head(level) IN
         (IF Queued(bookmark) THEN <<bookmark>> ELSE <<>>)
         \o traverse(nodes, Children(nodes, bookmark.id))
         \o traverse(nodes, Tail(level))

(***************************************************************************)
(* Tasks.  A task is one invocation started by an event; its kind is       *)
(* "startup" (the sweep of onInstalled), "retry" (a timer tick calling     *)
(* retryUnprocessedBookmarks) or "created" (the onCreated listener).  The  *)
(* model follows one pending invocation of each kind, and at most MaxTasks *)
(* pending invocations in all.  pc is the await the task is suspended at:  *)
(*   "health0"  retryUnprocessedBookmarks awaits isBackendAvailable        *)
(*   "getTree"  processAllBookmarks awaits browser.bookmarks.getTree       *)
(*   "health"   the sweep loop or the created handler awaits               *)
(*              isBackendAvailable                                         *)
(*   "get"      getFolderName awaits browser.bookmarks.get                 *)
(*   "post"     processBookmark awaits fetch(POST /process_bookmark)       *)
(*   "remove"   processBookmark awaits browser.bookmarks.remove            *)
(*   "done"     the invocation returned                                    *)
(*   "rejected" the invocation ended in an unhandled rejection             *)
(* trace lists what happened since the task started or, if later, since    *)
(* the health check that let it make its latest call of processBookmark:   *)
(* requests, answers, console output and alerts.                           *)
(***************************************************************************)
TaskIds == {"startup", "retry", "created"}

NoBookmark == Mk("", "", FALSE, "", "", Ms(0, 0))
NoRequest == [title |-> "", url |-> "", folder |-> Null, date |-> ""]

\* queue, idx, bookmark: the locals of processAllBookmarks and processBookmark;
\* request: the body of the latest POST; removing: the id given to the latest
\* browser.bookmarks.remove; checks: the health checks made by the sweep loop;
\* attempted, submitted, removed: the ids of the bookmarks the invocation
\* called processBookmark on, sent a POST for, and removed from the store
Idle ==
    [kind |-> "none", pc |-> "idle", queue |-> <<>>, idx |-> 0, checks |-> 0,
     bookmark |-> NoBookmark, request |-> NoRequest, removing |-> "",
     attempted |-> <<>>, submitted |-> <<>>, removed |-> <<>>, trace |-> <<>>]

Emit(tk, events) == [tk EXCEPT !.trace = @ \o events]

\* the invocation ends; what it did is on record in the state it ends in
Finish(tk, pc) == [tk EXCEPT !.pc = pc]

\* no invocation is pending in a free task
Free(tk) == tk.pc \in {"idle", "done", "rejected"}

Pending == {t \in TaskIds : ~Free(task[t])}

\* an invocation of kind t may start
MayStart(t) == Free(task[t]) /\ Cardinality(Pending) < MaxTasks

Start(kind, pc) == [Idle EXCEPT !.kind = kind, !.pc = pc]

\* the record of an ended invocation is dropped by the next step
Settle(tk) == IF tk.pc \in {"done", "rejected"} THEN Idle ELSE tk

\* task t becomes tk
Resume(t, tk) == [u \in TaskIds |-> IF u = t THEN tk ELSE Settle(task[u])]

\* variant: every answer counts as a success
ResponseOkAnyStatus(outcome) == outcome # "exc"

\* response.ok of a fetch that ended with `outcome`
ResponseOk(outcome) == outcome = "ok"

\* variant: the backend counts as available whatever the health check gave
isBackendAvailableAlways(outcome) == TRUE

\* isBackendAvailable (lines 69-76), given how its fetch ended
isBackendAvailable(outcome) ==
    IF outcome = "exc" THEN FALSE ELSE ResponseOk(outcome)

\* getFolderName (lines 19-30), given the array browser.bookmarks.get gave
getFolderName(folderId, folderNode) ==
    IF folderId = UNFILED THEN Null
    ELSE IF Len(folderNode) > 0 /\ folderNode[1].title # ""
         THEN Str(folderNode[1].title)
         ELSE Null

\* the for loop of processAllBookmarks (lines 96-103) reaching item i
LoopAt(tk, i) ==
    IF i <= Len(tk.queue)
    THEN [tk EXCEPT !.pc = "health", !.idx = i, !.checks = @ + 1]
    ELSE Finish([tk EXCEPT !.idx = i], "done")

\* processBookmark returned to its caller
Returned(t, tk) ==
    IF tk.kind = "created" THEN Finish(tk, "done")
    ELSE LoopAt(tk, tk.idx + 1)

\* processBookmark rejected: caught by processAllBookmarks (line 104), not
\* caught by the onCreated listener
Rejected(t, tk) ==
    IF tk.kind = "created" THEN Finish(tk, "rejected")
    ELSE Finish(Emit(tk, <<"error:sweep">>), "done")

\* variant: the catch block logs and raises no alert
CatchSilent(t, tk) == Returned(t, Emit(tk, <<"error:sending">>))

\* the catch block of processBookmark (lines 63-66)
Catch(t, tk) == Returned(t, Emit(tk, <<"error:sending", "alert">>))

\* variant: the sweep loop skips the item and goes on (continue for return)
AbortContinue(tk) == LoopAt(Emit(tk, <<"log:unavailable">>), tk.idx + 1)

\* the sweep loop finds the backend unavailable (lines 99-102)
Abort(tk) == Finish(Emit(tk, <<"log:unavailable">>), "done")

\* variant: the bookmark's folder is removed
RemoveArgParent(tk) == tk.bookmark.parentId

\* the argument of browser.bookmarks.remove (line 58)
RemoveArg(tk) == tk.bookmark.id

\* variant: browser.bookmarks.remove is called and not awaited
AfterPostNoAwait(t, tk, outcome) ==
    IF outcome = "exc"
    THEN Catch(t, Emit(tk, <<"post:exc">>))
    ELSE IF ResponseOk(outcome)
    THEN Returned(t, [Emit(tk, <<"post:" \o outcome, "log:processed", "remove">>)
                         EXCEPT !.removing = RemoveArg(tk)])
    ELSE Returned(t, Emit(tk, <<"post:" \o outcome, "error:failed", "alert">>))

\* processBookmark after its fetch ended with `outcome` (lines 56-66)
AfterPost(t, tk, outcome) ==
    IF outcome = "exc"
    THEN Catch(t, Emit(tk, <<"post:exc">>))
    ELSE IF ResponseOk(outcome)
    THEN [Emit(tk, <<"post:" \o outcome, "log:processed", "remove">>)
             EXCEPT !.pc = "remove", !.removing = RemoveArg(tk)]
    ELSE Returned(t, Emit(tk, <<"post:" \o outcome, "error:failed", "alert">>))

\* the fetch of processBookmark is issued (lines 43-54)
Post(tk, folderName) ==
    [Emit(tk, <<"post">>) EXCEPT
        !.pc = "post",
        !.request = [title |-> tk.bookmark.title, url |-> tk.bookmark.url,
                     folder |-> folderName,
                     date |-> IsoDates[tk.bookmark.dateAdded]],
        !.submitted = Append(@, tk.bookmark.id)]

\* processBookmark(bookmark) is called and runs to its first await or to its
\* return (lines 32-43)
Enter(t, tk, bookmark) ==
    LET tk1 == [tk EXCEPT !.bookmark = bookmark, !.request = NoRequest,
                          !.removing = "", !.trace = Append(@, "log:intercepted"),
                          !.attempted = Append(@, bookmark.id)]
    IN  IF ~bookmark.hasUrl
        THEN Rejected(t, tk1)  \* url.startsWith of undefined: TypeError
        ELSE IF isUnsupportedUrl(bookmark.url) \/ isDefaultUrl(bookmark.url)
        THEN Returned(t, Emit(tk1, <<"log:skipping">>))
        ELSE IF bookmark.parentId = UNFILED
        THEN Post(tk1, getFolderName(bookmark.parentId, <<>>))
        ELSE [Emit(tk1, <<"get">>) EXCEPT !.pc = "get"]

(***************************************************************************)
(* The environment's answers.  In a healthy world every call succeeds that *)
(* can succeed; in a faulty world a fetch may also answer a non-success    *)
(* status ("notok") or fail at network level ("exc"), and a store call may *)
(* reject.                                                                 *)
(***************************************************************************)
FetchOutcomes == IF world = "healthy" THEN {"ok"} ELSE {"ok", "notok", "exc"}

StoreOutcomes == IF world = "healthy" THEN {"ok"} ELSE {"ok", "reject"}

\* browser.bookmarks.get resolves with the node, or with nothing when the id
\* is unknown (some platforms reject then), or rejects
GetOutcomes(id) == IF InStore(id) THEN StoreOutcomes ELSE {"ok", "reject"}

\* browser.bookmarks.remove rejects when the id is unknown
RemoveOutcomes(id) == IF InStore(id) THEN StoreOutcomes ELSE {"reject"}

(***************************************************************************)
(* Initial state: the extension's script has been loaded, its listeners    *)
(* are registered, no event has fired.                                     *)
(***************************************************************************)
Init ==
    /\ store = InitialStore
    /\ placed = Nodes(InitialStore)
    /\ task = [t \in TaskIds |-> Idle]
    /\ timerArmed = FALSE
    /\ installed = FALSE
    /\ world = "faulty"

(***************************************************************************)
(* Events.                                                                 *)
(***************************************************************************)
\* variant: the sweep is started and the timer is not armed
InstallWithoutTimer ==
    /\ ~installed
    /\ MayStart("startup")
    /\ installed' = TRUE
    /\ task' = Resume("startup", Emit(Start("startup", "getTree"), <<"log:installed">>))
    /\ UNCHANGED <<store, placed, timerArmed, world>>

\* the onInstalled listener (lines 117-121)
Install ==
    /\ ~installed
    /\ MayStart("startup")
    /\ installed' = TRUE
    /\ task' = Resume("startup", Emit(Start("startup", "getTree"), <<"log:installed">>))
    /\ timerArmed' = TRUE
    /\ UNCHANGED <<store, placed, world>>

\* variant: a tick waits until no invocation is pending
TickExclusive ==
    /\ timerArmed
    /\ Pending = {}
    /\ task' = Resume("retry", Start("retry", "health0"))
    /\ UNCHANGED <<store, placed, timerArmed, installed, world>>

\* the interval timer fires: retryUnprocessedBookmarks is called (line 110)
Tick ==
    /\ timerArmed
    /\ MayStart("retry")
    /\ task' = Resume("retry", Start("retry", "health0"))
    /\ UNCHANGED <<store, placed, timerArmed, installed, world>>

\* the user creates node Creatable[k]; the platform stores it and fires
\* onCreated, whose listener calls isBackendAvailable (lines 123-124)
CreateNode(node) ==
    /\ MayStart("created")
    /\ node \notin placed
    /\ InStore(node.parentId)
    /\ store' = StoreCreate(store, node)
    /\ placed' = placed \cup {node}
    /\ task' = Resume("created",
                      [Start("created", "health") EXCEPT !.bookmark = node])
    /\ UNCHANGED <<timerArmed, installed, world>>

Create(k) == CreateNode(Creatable[k])

(***************************************************************************)
(* Resumptions.                                                            *)
(***************************************************************************)
\* variant: the condition of retryUnprocessedBookmarks is inverted
Health0RespInverted(t, outcome) ==
    /\ task[t].pc = "health0"
    /\ task' = Resume(t,
          IF ~isBackendAvailable(outcome)
          THEN [Emit(task[t], <<"health:" \o outcome>>) EXCEPT !.pc = "getTree"]
          ELSE Finish(Emit(task[t], <<"log:unavailable">>), "done"))
    /\ UNCHANGED <<store, placed, timerArmed, installed, world>>

\* variant: the sweep is started whatever the health check gave
Health0RespSweepAnyway(t, outcome) ==
    /\ task[t].pc = "health0"
    /\ task' = Resume(t, [Emit(task[t], <<"health:" \o outcome>>)
                             EXCEPT !.pc = "getTree"])
    /\ UNCHANGED <<store, placed, timerArmed, installed, world>>

\* retryUnprocessedBookmarks resumes after isBackendAvailable (lines 110-114)
Health0Resp(t, outcome) ==
    /\ task[t].pc = "health0"
    /\ task' = Resume(t,
          IF isBackendAvailable(outcome)
          THEN [Emit(task[t], <<"health:" \o outcome>>) EXCEPT !.pc = "getTree"]
          ELSE Finish(Emit(task[t], <<"log:unavailable">>), "done"))
    /\ UNCHANGED <<store, placed, timerArmed, installed, world>>

\* processAllBookmarks resumes after getTree (lines 80-96, 104-106)
GetTreeResp(t, outcome) ==
    /\ task[t].pc = "getTree"
    /\ task' = Resume(t,
          IF outcome = "ok"
          THEN LoopAt([task[t] EXCEPT
                          !.queue = traverse(store, GetTree(store))], 1)
          ELSE Finish(Emit(task[t], <<"error:sweep">>), "done"))
    /\ UNCHANGED <<store, placed, timerArmed, installed, world>>

\* the sweep loop (lines 97-102) or the onCreated listener (lines 124-128)
\* resumes after isBackendAvailable
HealthResp(t, outcome) ==
    /\ task[t].pc = "health"
    /\ task' = Resume(t,
          IF isBackendAvailable(outcome)
          THEN Enter(t, [task[t] EXCEPT !.trace = <<"health:" \o outcome>>],
                     IF task[t].kind = "created"
                     THEN task[t].bookmark
                     ELSE task[t].queue[task[t].idx])
          ELSE IF task[t].kind = "created"
          THEN Finish(Emit(task[t], <<"log:unavailable">>), "done")
          ELSE Abort(task[t]))
    /\ UNCHANGED <<store, placed, timerArmed, installed, world>>

\* getFolderName resumes after browser.bookmarks.get (lines 24-29), and
\* processBookmark after it (lines 41-54)
GetResp(t, outcome) ==
    /\ task[t].pc = "get"
    /\ task' = Resume(t,
          IF outcome = "ok"
          THEN Post(Emit(task[t], <<"get:ok">>),
                    getFolderName(task[t].bookmark.parentId,
                                  StoreGet(store, task[t].bookmark.parentId)))
          ELSE Catch(t, Emit(task[t], <<"get:reject">>)))
    /\ UNCHANGED <<store, placed, timerArmed, installed, world>>

\* processBookmark resumes after the fetch (lines 56-66)
PostResp(t, outcome) ==
    /\ task[t].pc = "post"
    /\ task' = Resume(t, AfterPost(t, task[t], outcome))
    /\ UNCHANGED <<store, placed, timerArmed, installed, world>>

\* processBookmark resumes after browser.bookmarks.remove (lines 58, 63-66)
RemoveResp(t, outcome) ==
    /\ task[t].pc = "remove"
    /\ IF outcome = "ok"
       THEN /\ store' = StoreRemove(store, task[t].removing)
            /\ task' = Resume(t,
                  Returned(t, [Emit(task[t], <<"remove:ok">>) EXCEPT
                                  !.removed = Append(@, task[t].removing)]))
       ELSE /\ store' = store
            /\ task' = Resume(t, Catch(t, Emit(task[t], <<"remove:reject">>)))
    /\ UNCHANGED <<placed, timerArmed, installed, world>>

\* a step of the system, the user creating only the nodes Creatable[k], k \in K
Step(K) ==
    \/ Install
    \/ Tick
    \/ \E k \in K : Create(k)
    \/ \E t \in TaskIds : \E o \in FetchOutcomes : Health0Resp(t, o)
    \/ \E t \in TaskIds : \E o \in StoreOutcomes : GetTreeResp(t, o)
    \/ \E t \in TaskIds : \E o \in FetchOutcomes : HealthResp(t, o)
    \/ \E t \in TaskIds :
          /\ task[t].pc = "get"
          /\ \E o \in GetOutcomes(task[t].bookmark.parentId) : GetResp(t, o)
    \/ \E t \in TaskIds : \E o \in FetchOutcomes : PostResp(t, o)
    \/ \E t \in TaskIds :
          /\ task[t].pc = "remove"
          /\ \E o \in RemoveOutcomes(task[t].removing) : RemoveResp(t, o)

Next == Step(DOMAIN Creatable)

Spec == Init /\ [][Next]_vars

(***************************************************************************)
(* The environment changes: the backend and the store start or stop        *)
(* answering every call with success.                                      *)
(***************************************************************************)
Fail ==
    /\ world = "healthy"
    /\ world' = "faulty"
    /\ task' = [u \in TaskIds |-> Settle(task[u])]
    /\ UNCHANGED <<store, placed, timerArmed, installed>>

Heal ==
    /\ world = "faulty"
    /\ world' = "healthy"
    /\ task' = [u \in TaskIds |-> Settle(task[u])]
    /\ UNCHANGED <<store, placed, timerArmed, installed>>

(***************************************************************************)
(* Vocabulary of the properties.                                           *)
(***************************************************************************)
Has(seq, e) == \E i \in DOMAIN seq : seq[i] = e

Count(seq, e) == Cardinality({i \in DOMAIN seq : seq[i] = e})

Last(seq) == seq[Len(seq)]

EndsWith(seq, e) == seq # <<>> /\ Last(seq) = e

Sweeps == {t \in TaskIds : task[t].kind \in {"startup", "retry"}}

\* a URL the spec says is never forwarded: one that begins with an unsupported
\* scheme, or one of the vendor's default URLs
Skipped(url) ==
    \/ \E scheme \in Range(UNSUPPORTED_SCHEMES) : StartsWith(url, scheme)
    \/ url \in Range(DEFAULT_URLS)

\* the bookmarks of the model that have such a URL
SkippedNodes == {n \in Universe : n.hasUrl /\ Skipped(n.url)}

SkippedIds == {n.id : n \in SkippedNodes}

SkippedUrls == {n.url : n \in SkippedNodes}

\* the ids of the first n items of a queue
FirstIds(queue, n) == [i \in 1..n |-> queue[i].id]

\* processBookmark was called by task t and has returned (or thrown)
Ended(t) ==
    /\ Has(task[t].trace, "log:intercepted")
    /\ task[t].pc \in {"health", "done", "rejected"}

\* C1: browser.bookmarks.remove is issued by an invocation of processBookmark
\* only after that invocation's POST, made for the same bookmark, returned a
\* success status; after a non-success status or a network exception the
\* invocation issues no removal.
C1_RemoveOnlyAfterAck ==
    \A t \in TaskIds :
        LET tk == task[t] IN
        /\ \A i \in DOMAIN tk.trace :
              tk.trace[i] = "remove" =>
                  /\ \E j \in 1..(i - 1) : tk.trace[j] = "post:ok"
                  /\ \E n \in placed :
                        /\ n.id = tk.removing
                        /\ tk.request.title = n.title
                        /\ tk.request.url = n.url
                  /\ tk.submitted # <<>> /\ Last(tk.submitted) = tk.removing
        /\ tk.pc = "remove" => EndsWith(tk.trace, "remove")
        /\ Has(tk.trace, "post:notok") \/ Has(tk.trace, "post:exc") =>
              ~Has(tk.trace, "remove") /\ tk.pc # "remove"
        /\ \A i \in DOMAIN tk.removed : Has(tk.submitted, tk.removed[i])

C1_Witness ==
    \E t \in TaskIds : EndsWith(task[t].trace, "remove:ok") /\ ~InStore(task[t].removing)

\* C2: a bookmark with an unsupported or default URL is never submitted and
\* never removed, on any path; processBookmark called on one makes no folder
\* lookup, no submission, no removal and no alert.
C2_SkippedUntouched ==
    /\ \A n \in SkippedNodes : n \in placed => InStore(n.id)
    /\ \A t \in TaskIds :
          LET tk == task[t] IN
          /\ Range(tk.queue) \cap SkippedNodes = {}
          /\ Range(tk.submitted) \cap SkippedIds = {}
          /\ Range(tk.removed) \cap SkippedIds = {}
          /\ tk.removing \notin SkippedIds
          /\ tk.request.url \notin SkippedUrls
          /\ tk.bookmark \in SkippedNodes =>
                /\ tk.pc \in {"health", "done"}
                /\ tk.trace \in {<<>>, <<"log:unavailable">>,
                                 <<"health:ok", "log:intercepted", "log:skipping">>}

C2_Witness ==
    \E t \in TaskIds :
        /\ task[t].trace = <<"health:ok", "log:intercepted", "log:skipping">>
        /\ task[t].bookmark \in SkippedNodes
        /\ task[t].bookmark \in Nodes(store)

\* C3: when the submission made by processBookmark fails, with a non-success
\* status or with a network exception, that invocation removes nothing and
\* raises exactly one alert.
C3_FailedSubmission ==
    \A t \in TaskIds :
        LET tk == task[t] IN
        Has(tk.trace, "post:notok") \/ Has(tk.trace, "post:exc") =>
            /\ Ended(t)
            /\ Count(tk.trace, "alert") = 1
            /\ ~Has(tk.trace, "remove")
            /\ tk.removing = ""
            /\ ~Has(tk.removed, tk.bookmark.id)
            /\ tk.bookmark \in placed

C3_Witness ==
    \E t \in TaskIds :
        /\ Has(task[t].trace, "post:exc")
        /\ task[t].bookmark \in Nodes(store)
        /\ Count(task[t].trace, "alert") = 1

\* C4: when the health check made before item k of a sweep's queue reports
\* the backend unavailable, the sweep ends there: it made k health checks,
\* called processBookmark on exactly the items 1..k-1, and submitted and
\* removed none of the items k..n.
C4_AbortLeavesRest ==
    \A t \in Sweeps :
        LET tk == task[t] IN
        /\ tk.pc = "health" =>
              tk.checks = tk.idx /\ tk.attempted = FirstIds(tk.queue, tk.idx - 1)
        /\ tk.pc = "done" /\ tk.idx >= 1 /\ EndsWith(tk.trace, "log:unavailable") =>
              /\ tk.idx <= Len(tk.queue)
              /\ tk.checks = tk.idx
              /\ tk.attempted = FirstIds(tk.queue, tk.idx - 1)
              /\ Range(tk.submitted) \subseteq Range(tk.attempted)
              /\ Range(tk.removed) \subseteq Range(tk.submitted)
              /\ \A i \in tk.idx..Len(tk.queue) :
                    ~Has(tk.submitted, tk.queue[i].id) /\ ~Has(tk.removed, tk.queue[i].id)

\* three qualifying bookmarks, backend unavailable before the 2nd
C4_Witness ==
    \E t \in Sweeps :
        LET tk == task[t] IN
        /\ tk.pc = "done" /\ EndsWith(tk.trace, "log:unavailable")
        /\ Len(tk.queue) = 3 /\ tk.idx = 2
        /\ tk.submitted = <<tk.queue[1].id>> /\ tk.removed = <<tk.queue[1].id>>
        /\ tk.queue[1] \notin Nodes(store)
        /\ tk.queue[2] \in Nodes(store) /\ tk.queue[3] \in Nodes(store)

\* the position of a node in the tree: the child indexes from the root down
IndexIn(seq, id) == CHOOSE i \in DOMAIN seq : seq[i].id = id

RECURSIVE PathOf(_, _)
PathOf(st, id) ==
    IF id = "" THEN <<>>
    ELSE LET parentId == StoreGet(st, id)[1].parentId
         IN  PathOf(st, parentId) \o <<IndexIn(st[parentId], id)>>

\* p comes before q in the pre-order depth-first walk
PathBefore(p, q) ==
    \/ Len(p) < Len(q) /\ SubSeq(q, 1, Len(p)) = p
    \/ \E i \in 1..Len(p) :
          /\ i <= Len(q)
          /\ SubSeq(p, 1, i - 1) = SubSeq(q, 1, i - 1)
          /\ p[i] < q[i]

InPreOrder(queue, st) ==
    \A i, j \in DOMAIN queue :
        i < j => PathBefore(PathOf(st, queue[i].id), PathOf(st, queue[j].id))

\* every request in the trace but the one of `pending` has its answer
Answered(trace, pending) ==
    /\ Count(trace, "get") =
          Count(trace, "get:ok") + Count(trace, "get:reject")
          + (IF pending = "get" THEN 1 ELSE 0)
    /\ Count(trace, "post") =
          Count(trace, "post:ok") + Count(trace, "post:notok") + Count(trace, "post:exc")
          + (IF pending = "post" THEN 1 ELSE 0)
    /\ Count(trace, "remove") =
          Count(trace, "remove:ok") + Count(trace, "remove:reject")
          + (IF pending = "remove" THEN 1 ELSE 0)

C5_QueueInPreOrder ==
    \A t \in TaskIds :
        task[t].pc = "getTree" /\ task'[t].pc = "health" =>
            InPreOrder(task'[t].queue, store)

C5_OneAtATime ==
    \A t \in Sweeps :
        LET tk == task[t] IN
        /\ Len(tk.attempted) <= Len(tk.queue)
        /\ tk.attempted = FirstIds(tk.queue, Len(tk.attempted))
        /\ \A i, j \in DOMAIN tk.submitted :
              i < j => \E a, b \in DOMAIN tk.attempted :
                          /\ a < b
                          /\ tk.attempted[a] = tk.submitted[i]
                          /\ tk.attempted[b] = tk.submitted[j]
        /\ Answered(tk.trace, tk.pc)
        /\ tk.pc = "health" => tk.checks = Len(tk.attempted) + 1

\* C5: a sweep submits in the pre-order depth-first order of the tree it
\* fetched (a node before its children, siblings in stored order), and the
\* submission and removal of one queued bookmark are over before the health
\* check of the next one starts.
C5_SweepOrder == []C5_OneAtATime /\ [][C5_QueueInPreOrder]_vars

C5_Witness ==
    \E t \in Sweeps :
        /\ task[t].submitted = <<"b2", "b1", "c1">>
        /\ task[t].removed = <<"b2", "b1">>
        /\ task[t].pc = "remove"

\* C7: when the submission succeeded and browser.bookmarks.remove fails, the
\* failure is only logged: no alert, no second removal call.
C7_RemovalFailureOnlyLogged ==
    \A t \in TaskIds :
        Has(task[t].trace, "remove:reject") =>
            ~Has(task[t].trace, "alert") /\ Count(task[t].trace, "remove") = 1

\* C8: in a sweep, a backend that is unreachable on the health check or on the
\* submission never causes an alert; it ends the sweep's work.
C8_SweepNeverAlerts ==
    \A t \in Sweeps :
        /\ Has(task[t].trace, "post:exc") =>
              ~Has(task[t].trace, "alert") /\ task[t].pc = "done"
        /\ EndsWith(task[t].trace, "log:unavailable") => task[t].pc = "done"

\* C9: no top-level operation ends in an unhandled rejection.
C9_NoUnhandledRejection == \A t \in TaskIds : task[t].pc # "rejected"

C10_OnlyPlacedNodes ==
    /\ Nodes(store) \subseteq placed
    /\ \A p \in DOMAIN store : \A i, j \in DOMAIN store[p] :
          i # j => store[p][i] # store[p][j]

C10_StoreStep ==
    store' # store =>
        \/ \E k \in DOMAIN Creatable :
              /\ Creatable[k] \notin placed
              /\ placed' = placed \cup {Creatable[k]}
              /\ store' = StoreCreate(store, Creatable[k])
        \/ \E t \in TaskIds :
              /\ task[t].pc = "remove"
              /\ Has(task[t].trace, "post:ok")
              /\ ~Has(task[t].trace, "alert")
              /\ store' = StoreRemove(store, task[t].bookmark.id)
              /\ \A n \in Nodes(store) :
                    n \in Nodes(store') \/ n = task[t].bookmark

\* C10: the system never adds or modifies a bookmark: the store holds only
\* nodes the platform or the user put there, and the only step of the system
\* that changes the store is the removal of a bookmark whose submission was
\* acknowledged.
C10_ReadsAndDeletesOnly == []C10_OnlyPlacedNodes /\ [][C10_StoreStep]_vars

C10_Witness ==
    /\ \E n \in placed : n \notin Nodes(store)
    /\ \E t \in TaskIds : Has(task[t].trace, "alert") /\ task[t].pc = "health"

(***************************************************************************)
(* Liveness.  The timer keeps ticking, and requests get their answers (a   *)
(* response, a rejection or a network error): while requests are pending,  *)
(* one of them is answered.  That is the least one can assume of a browser *)
(* in which every request is answered in the end.  Platform events         *)
(* (install, bookmark creation) and changes of the environment need not    *)
(* happen.  Liveness is checked with the user creating the qualifying      *)
(* bookmark only.                                                          *)
(***************************************************************************)
LiveCreatable == {k \in DOMAIN Creatable : Queued(Creatable[k])}

LiveNext == Step(LiveCreatable) \/ Heal \/ Fail

Answers(t) ==
    \/ \E o \in FetchOutcomes : Health0Resp(t, o)
    \/ \E o \in StoreOutcomes : GetTreeResp(t, o)
    \/ \E o \in FetchOutcomes : HealthResp(t, o)
    \/ task[t].pc = "get"
       /\ \E o \in GetOutcomes(task[t].bookmark.parentId) : GetResp(t, o)
    \/ \E o \in FetchOutcomes : PostResp(t, o)
    \/ task[t].pc = "remove"
       /\ \E o \in RemoveOutcomes(task[t].removing) : RemoveResp(t, o)

Fairness == WF_vars(Tick) /\ WF_vars(\E t \in TaskIds : Answers(t))

LiveSpec == Init /\ [][LiveNext]_vars /\ Fairness

\* the onCreated listener found the backend unavailable for bookmark c1
C6_Skipped ==
    /\ task["created"].pc = "done"
    /\ task["created"].bookmark.id = "c1"
    /\ task["created"].trace = <<"log:unavailable">>

C6_HandlerDidNothing ==
    C6_Skipped =>
        /\ task["created"].attempted = <<>>
        /\ task["created"].submitted = <<>>
        /\ task["created"].removed = <<>>

C6_Left == C6_Skipped /\ timerArmed /\ InStore("c1")

C6_RemovedByRetry ==
    Has(task["retry"].submitted, "c1") /\ Has(task["retry"].removed, "c1")

C6_RemovedBySweep ==
    \E t \in Sweeps : Has(task[t].submitted, "c1") /\ Has(task[t].removed, "c1")

\* C6 as stated: a qualifying bookmark created while the backend is
\* unavailable is left alone by the onCreated listener; with the retry timer
\* armed and the backend available from some time on, a periodic sweep
\* eventually submits and removes it.
C6_PickedUpByRetry ==
    /\ []C6_HandlerDidNothing
    /\ <>[](world = "healthy") => (C6_Left ~> C6_RemovedByRetry)

\* C6 as amended: a sweep, periodic or startup, eventually submits and removes it.
C6_PickedUpBySweep ==
    /\ []C6_HandlerDidNothing
    /\ <>[](world = "healthy") => (C6_Left ~> C6_RemovedBySweep)

C6_Witness ==
    /\ task["retry"].kind = "retry"
    /\ C6_RemovedByRetry
    /\ world = "healthy"

(***************************************************************************)
(* The payload.                                                            *)
(***************************************************************************)
\* the payload the spec gives for its example bookmark
ExamplePayload ==
    [title |-> "Example", url |-> "https://example.com",
     folder |-> Str("Reading"), date |-> "2023-11-14T22:13:20.000Z"]

\* the payloads of the qualifying bookmarks of the model, worked out by hand
Payloads ==
    [b2 |-> ExamplePayload,
     b1 |-> [title |-> "News", url |-> "http://news.example.org/",
             folder |-> Null, date |-> "2023-11-14T22:15:23.456Z"],
     c1 |-> [title |-> "Later", url |-> "https://later.example.net/a",
             folder |-> Null, date |-> "2024-02-29T23:59:59.999Z"]]

\* C11: the payload of every submission has the title and url of the
\* bookmark processBookmark was called on, the folder name getFolderName gave
\* for its parent (the title, or null for the unfiled root) and the ISO-8601
\* form of its dateAdded; no field comes from another bookmark, also when
\* several attempts are in flight.
C11_PayloadOfBookmark ==
    \A t \in TaskIds :
        LET tk == task[t] IN
        /\ Has(tk.trace, "post") <=> tk.request # NoRequest
        /\ Has(tk.trace, "post") =>
              /\ tk.bookmark.id \in DOMAIN Payloads
              /\ tk.request = Payloads[tk.bookmark.id]
              /\ Last(tk.submitted) = tk.bookmark.id
              /\ tk.bookmark \in placed
        /\ t \in Sweeps /\ tk.pc \in {"get", "post", "remove"} =>
              tk.bookmark = tk.queue[tk.idx]

C11_Witness ==
    \E t, u \in TaskIds :
        /\ task[t].pc = "post" /\ task[t].request = ExamplePayload
        /\ task[u].pc = "post" /\ task[u].request = Payloads["c1"]

(***************************************************************************)
(* Calls in flight.                                                        *)
(***************************************************************************)
\* the tasks inside processBookmark, and those awaiting a removal
Processing == {t \in TaskIds : task[t].pc \in {"get", "post", "remove"}}

Removing == {t \in TaskIds : task[t].pc = "remove"}

\* the removal calls of a task that have no answer yet
RemovalsInFlight(tk) ==
    Count(tk.trace, "remove")
    - Count(tk.trace, "remove:ok") - Count(tk.trace, "remove:reject")

\* C12 as stated: over all tasks, at most one browser.bookmarks.remove call
\* and at most one processBookmark invocation is in flight.
C12_OneRemovalInFlight ==
    Cardinality(Removing) <= 1 /\ Cardinality(Processing) <= 1

\* C12 as amended: each task has at most one removal call in flight, which it
\* awaits before it does anything else, and handles one bookmark at a time;
\* calls of different tasks may be in flight together.
C12_SequentialPerTask ==
    \A t \in TaskIds :
        LET tk == task[t] IN
        /\ RemovalsInFlight(tk) = (IF tk.pc = "remove" THEN 1 ELSE 0)
        /\ tk.pc = "remove" =>
              /\ EndsWith(tk.trace, "remove")
              /\ tk.removing = tk.bookmark.id
              /\ ~Has(tk.removed, tk.removing)
        /\ Count(tk.trace, "log:intercepted") <= 1
        /\ Len(tk.removed) <= Len(tk.submitted)
        /\ Len(tk.submitted) <= Len(tk.attempted)

C12_Witness ==
    \E t, u \in Removing : t # u /\ task[t].removing # task[u].removing

(***************************************************************************)
(* Overlapping attempts.                                                   *)
(***************************************************************************)
\* the tasks whose submission of bookmark id was acknowledged and whose
\* removal of it has not been answered
Acknowledged(id) ==
    {t \in TaskIds : /\ task[t].bookmark.id = id
                     /\ Has(task[t].trace, "post:ok")
                     /\ task[t].pc = "remove"}

\* C13: nothing excludes a retry tick while other invocations are pending:
\* with the timer armed, a tick can fire whenever the model has room for a
\* retry invocation, whatever the other tasks are doing.  One attempt
\* submits a bookmark once; the same bookmark acknowledged twice (witness) is
\* the work of two attempts.
C13_NoMutualExclusion ==
    /\ timerArmed /\ MayStart("retry") => ENABLED Tick
    /\ \A t \in TaskIds : \A i, j \in DOMAIN task[t].submitted :
          i # j => task[t].submitted[i] # task[t].submitted[j]

\* a retry sweep and another attempt both hold the backend's acknowledgement
\* for bookmark b2, which is still in the store
C13_Witness ==
    /\ InStore("b2")
    /\ task["retry"].kind = "retry"
    /\ "retry" \in Acknowledged("b2")
    /\ Cardinality(Acknowledged("b2")) = 2

(***************************************************************************)
(* Health checks.                                                          *)
(***************************************************************************)
\* what a task does between a health check and the POST it allows
BeforePost ==
    {<<"health:ok", "log:intercepted">>,
     <<"health:ok", "log:intercepted", "get", "get:ok">>}

FirstIndex(seq, e) == CHOOSE i \in DOMAIN seq : seq[i] = e /\ \A j \in 1..(i - 1) : seq[j] # e

\* C14: a task issues POST /process_bookmark only after its own GET /health
\* for that item returned a success status, with nothing but the folder
\* lookup in between; after a failed health check the task submits nothing
\* for that item.
C14_HealthGatesSubmission ==
    \A t \in TaskIds :
        LET tk == task[t] IN
        /\ Has(tk.trace, "log:intercepted") => tk.trace[1] = "health:ok"
        /\ Has(tk.trace, "post") =>
              /\ Count(tk.trace, "post") = 1
              /\ SubSeq(tk.trace, 1, FirstIndex(tk.trace, "post") - 1) \in BeforePost
        /\ t \in Sweeps => Len(tk.submitted) <= tk.checks
        /\ t \in Sweeps /\ tk.pc \in {"get", "post", "remove"} =>
              tk.checks = tk.idx /\ Len(tk.attempted) = tk.idx
        /\ EndsWith(tk.trace, "log:unavailable") =>
              /\ tk.pc = "done"
              /\ tk.kind = "created" =>
                    tk.trace = <<"log:unavailable">> /\ tk.submitted = <<>>
                    /\ tk.request = NoRequest
              /\ tk.kind \in {"startup", "retry"} /\ tk.idx >= 1 =>
                    /\ ~Has(tk.submitted, tk.queue[tk.idx].id)
                    /\ Len(tk.submitted) < tk.checks

\* the second health check of a sweep failed after the first item was submitted
C14_Witness ==
    \E t \in Sweeps :
        /\ EndsWith(task[t].trace, "log:unavailable")
        /\ task[t].idx = 2
        /\ Len(task[t].submitted) = 1
        /\ Has(task[t].trace, "get:ok")

\* a step of retryUnprocessedBookmarks after its health check
C15_RetryStep ==
    \A t \in TaskIds :
        task[t].pc = "health0" /\ task'[t] # task[t] =>
            /\ UNCHANGED <<store, placed, timerArmed, installed>>
            /\ task'[t].queue = <<>> /\ task'[t].checks = 0
            /\ task'[t].attempted = <<>> /\ task'[t].submitted = <<>>
            /\ task'[t].removed = <<>> /\ task'[t].request = NoRequest
            /\ task'[t].removing = ""
            /\ \/ task'[t].pc = "getTree" /\ task'[t].trace = <<"health:ok">>
               \/ task'[t].pc = "done" /\ task'[t].trace = <<"log:unavailable">>

C15_SweepAfterSuccess ==
    \A t \in TaskIds :
        /\ task[t].kind = "retry" /\ task[t].pc = "getTree" =>
              task[t].trace = <<"health:ok">>
        /\ task[t].kind = "retry" /\ task[t].trace = <<"log:unavailable">> =>
              /\ task[t].pc = "done"
              /\ task[t].queue = <<>> /\ task[t].submitted = <<>>
              /\ task[t].removed = <<>>

\* C15: retryUnprocessedBookmarks called while the backend is unavailable
\* changes nothing: no tree is fetched, nothing is submitted or removed, no
\* alert is raised; it goes on to the sweep only after its own health check
\* returned a success status.
C15_RetryNoOp == []C15_SweepAfterSuccess /\ [][C15_RetryStep]_vars

C15_Witness ==
    /\ task["retry"].kind = "retry"
    /\ task["retry"].pc = "done"
    /\ task["retry"].trace = <<"log:unavailable">>
    /\ InStore("b1") /\ InStore("b2")
    /\ Pending # {}

(***************************************************************************)
(* The queue of a sweep.                                                   *)
(***************************************************************************)
\* the bookmarks of a store the spec says a sweep is to process
Qualifying(st) == {n \in Nodes(st) : n.hasUrl /\ ~Skipped(n.url)}

\* getTree resolved: the queue is built from the store as it is now
C16_QueueBuilt ==
    \A t \in TaskIds :
        /\ task[t].pc = "getTree"
        /\ task'[t].pc \in {"health", "done"}
        /\ ~Has(task'[t].trace, "error:sweep")
        => /\ Range(task'[t].queue) = Qualifying(store)
           /\ Len(task'[t].queue) = Cardinality(Qualifying(store))
           /\ InPreOrder(task'[t].queue, store)

\* the queue of a running sweep does not change, whatever happens to the store
C16_QueueFrozen ==
    \A t \in TaskIds :
        task[t].pc \in {"health", "get", "post", "remove"} =>
            task'[t].queue = task[t].queue

C16_OnlyQueued ==
    \A t \in Sweeps :
        /\ \A i \in DOMAIN task[t].queue :
              task[t].queue[i].hasUrl /\ task[t].queue[i] \in placed
        /\ \A i \in DOMAIN task[t].attempted :
              \E j \in DOMAIN task[t].queue : task[t].queue[j].id = task[t].attempted[i]
        /\ task[t].pc \in {"get", "post", "remove"} =>
              task[t].idx \in DOMAIN task[t].queue

\* C16: the queue of a sweep holds exactly the nodes of the fetched tree with
\* a url that is neither unsupported nor default, each once, in pre-order
\* (folders are not queued, their children are walked); it is fixed when the
\* tree is fetched, and the sweep processes nothing else.
C16_QueueExact == []C16_OnlyQueued /\ [][C16_QueueBuilt /\ C16_QueueFrozen]_vars

\* a sweep ended after processing its whole queue, which holds the bookmark in
\* folder f1 and not the bookmark created after the tree was fetched
C16_Witness ==
    \E t \in Sweeps :
        /\ task[t].pc = "done"
        /\ task[t].idx = Len(task[t].queue) + 1
        /\ FirstIds(task[t].queue, Len(task[t].queue)) = <<"b2", "b1">>
        /\ task[t].attempted = <<"b2", "b1">>
        /\ InStore("c1") /\ InStore("c2")

(***************************************************************************)
(* The retry timer.                                                        *)
(***************************************************************************)
C17_ArmedOnInstall ==
    /\ installed <=> timerArmed
    /\ task["startup"].kind = "startup" => installed
    /\ timerArmed /\ Pending = {} => ENABLED Tick

\* the install event starts the sweep and arms the timer in one step, the
\* sweep still waiting for the tree
C17_InstallStep ==
    ~installed /\ installed' =>
        /\ timerArmed'
        /\ task'["startup"].kind = "startup"
        /\ task'["startup"].pc = "getTree"

\* nothing cancels the timer or starts a second startup sweep
C17_NeverCancelled ==
    /\ timerArmed => timerArmed'
    /\ installed => installed'
    /\ installed /\ task["startup"].pc \in {"idle", "done"} =>
          task'["startup"].pc = "idle"

\* C17: the install event starts one sweep and arms the retry timer at once,
\* without waiting for the sweep; the timer stays armed whatever the sweep
\* does, and a tick can fire whenever nothing is pending.
C17_TimerArmedForGood ==
    []C17_ArmedOnInstall /\ [][C17_InstallStep /\ C17_NeverCancelled]_vars

\* the startup sweep failed on getTree; the timer is armed and a tick has fired
C17_Witness ==
    /\ timerArmed
    /\ task["startup"].pc = "done"
    /\ EndsWith(task["startup"].trace, "error:sweep")
    /\ task["retry"].pc = "health0"

(***************************************************************************)
(* Folder lookups.  The user creates folders and bookmarks in them, and     *)
(* may delete a folder with all it holds while the onCreated listener of    *)
(* one of its bookmarks is still at work.                                   *)
(***************************************************************************)
\* the user deletes folder id
UserRemoveTree(id) ==
    /\ InStore(id)
    /\ store' = StoreRemoveTree(store, id)
    /\ task' = [u \in TaskIds |-> Settle(task[u])]
    /\ UNCHANGED <<placed, timerArmed, installed, world>>

FolderCreatable == Range(FolderNodes) \cup {Creatable[1]}

FolderNext ==
    \/ \E node \in FolderCreatable : CreateNode(node)
    \/ \E node \in Range(FolderNodes) : ~node.hasUrl /\ UserRemoveTree(node.id)
    \/ \E o \in FetchOutcomes : HealthResp("created", o)
    \/ /\ task["created"].pc = "get"
       /\ \E o \in GetOutcomes(task["created"].bookmark.parentId) : GetResp("created", o)
    \/ \E o \in FetchOutcomes : PostResp("created", o)
    \/ /\ task["created"].pc = "remove"
       /\ \E o \in RemoveOutcomes(task["created"].removing) : RemoveResp("created", o)

FolderSpec == Init /\ [][FolderNext]_vars

\* no lookup for the unfiled root, one lookup otherwise
C18_Queries ==
    \A t \in TaskIds :
        LET tk == task[t] IN
        /\ tk.bookmark.parentId = UNFILED =>
              /\ ~Has(tk.trace, "get")
              /\ Has(tk.trace, "post") => tk.request.folder = Null
        /\ tk.bookmark.parentId # UNFILED /\ Has(tk.trace, "post") =>
              Count(tk.trace, "get") = 1 /\ Count(tk.trace, "get:ok") = 1
        /\ Count(tk.trace, "get") <= 1

\* the step that answers the lookup of getFolderName
C18_Lookup ==
    \A t \in TaskIds :
        task[t].pc = "get" /\ task'[t] # task[t] =>
            LET found == {n \in Nodes(store) : n.id = task[t].bookmark.parentId} IN
            IF found # {}
            THEN Has(task'[t].trace, "get:ok") =>
                    /\ task'[t].pc = "post"
                    /\ \A n \in found :
                          task'[t].request.folder =
                              (IF n.title # "" THEN Str(n.title) ELSE Null)
            ELSE /\ task'[t].pc = "post"
                 /\ task'[t].request.folder = Null
                 /\ ~Has(task'[t].trace, "error:sending")

\* C18: getFolderName gives null for "unfiled_____" without a lookup;
\* otherwise it makes one lookup and gives the title of the node found when
\* that is not empty, and null, without throwing, when no node is found or
\* the title is empty.
C18_FolderName == []C18_Queries /\ [][C18_Lookup]_vars

====
